---- MODULE Spec2Model ----
(***************************************************************************)
(* Deque on a doubly linked list whose nodes come from a pluggable         *)
(* allocation strategy (deque_t<int>, single_allocator_t<node_t>,          *)
(* stupid_strategy_t).                                                     *)
(*                                                                         *)
(* Memory is a finite set of block addresses.  Every block keeps the bytes *)
(* last written to it (heap) and an allocation status:                     *)
(*   "free"  not handed out by malloc (never allocated, or freed);         *)
(*   "raw"   handed out, holding no constructed node (between malloc and   *)
(*           placement new, or after the node destructor has run);         *)
(*   "live"  handed out and holding a constructed node.                    *)
(* The element type is int, as in main.cpp, so ~node_t() is trivial and    *)
(* leaves the bytes of the block as they are.                              *)
(*                                                                         *)
(* The bytes of a freed block are not part of the program's state (heap    *)
(* keeps a fixed filler there), and free() makes every pointer to the      *)
(* block invalid, wherever it is stored and whether or not malloc hands    *)
(* the same address out again: such a pointer is kept as Stale.            *)
(* Dereferencing a null or stale pointer or a null handle is undefined     *)
(* behaviour: what the program does from there on is not defined by the    *)
(* code, and the model records only that it happened (undefined).  No      *)
(* property of the program's state is taken to hold once undefined is set: *)
(* every formula about an operation's result requires the operation to     *)
(* end with undefined still FALSE.                                         *)
(***************************************************************************)
EXTENDS Integers, Sequences, FiniteSets, TLC

MaxAddr == 4
MaxVal == 2

(* A deque is filled to at most half of the memory, so that a copy of it   *)
(* always finds the blocks it needs.                                      *)
MaxLen == MaxAddr \div 2

NULL == 0
Stale == -1
Addr == 1..MaxAddr
Values == 1..MaxVal
Strategies == {"S1", "S2"}
NoStrategy == "null"
Deques == {"A", "B"}
NoIter == -2

VARIABLES heap, status, allocEls, held, deq, undefined, iter, out, result

vars == <<heap, status, allocEls, held, deq, undefined, iter, out, result>>

(* node_t: next, prev, data *)
node_t(newData, newPrev, newNext) ==
  [next |-> newNext, prev |-> newPrev, data |-> newData]

(* deque_t fields: start, tail, allocator (the strategy handle held by   *)
(* the typed allocator); live tells whether the object is constructed.    *)
NoDeque == [live |-> FALSE, start |-> NULL, tail |-> NULL, allocator |-> NoStrategy]

Filler == node_t(1, NULL, NULL)

(* A call in progress works on a copy of the program state; ptr and ret   *)
(* hold the pointer and the value being returned, ub tells that the call  *)
(* dereferenced a null or stale pointer or a null handle, oom that malloc *)
(* had no block left and returned null, deallocs and via list the pointers the call has passed to         *)
(* single_allocator_t::dealloc.                                           *)
World ==
  [heap |-> heap, status |-> status, allocEls |-> allocEls, held |-> held,
   deq |-> deq, iter |-> iter,
   ptr |-> NULL, ret |-> 0, ub |-> FALSE, oom |-> FALSE, deallocs |-> <<>>,
   via |-> <<>>]

(* Reading or writing through pointer p. *)
Valid(w, p) == p \in Addr /\ w.status[p] # "free"

Touch(w, p) == IF Valid(w, p) THEN w ELSE [w EXCEPT !.ub = TRUE]

Load(w, p) == IF p \in Addr THEN w.heap[p] ELSE Filler

SetNext(w, p, v) ==
  IF Valid(w, p) THEN [w EXCEPT !.heap[p].next = v] ELSE Touch(w, p)

SetPrev(w, p, v) ==
  IF Valid(w, p) THEN [w EXCEPT !.heap[p].prev = v] ELSE Touch(w, p)

SetData(w, p, v) ==
  IF Valid(w, p) THEN [w EXCEPT !.heap[p].data = v] ELSE Touch(w, p)

(* malloc: the system allocator returns some block that is not handed out, *)
(* or null when there is none; pref is the order in which it looks for one. *)
malloc(w, pref) ==
  LET free == {i \in 1..MaxAddr : w.status[pref[i]] = "free"}
  IN IF free = {} THEN NULL
     ELSE pref[CHOOSE i \in free : \A j \in free : i <= j]

(* Position of the first occurrence of ptr in a list, 0 when absent. *)
find(list, ptr) ==
  LET hits == {i \in DOMAIN list : list[i] = ptr}
  IN IF hits = {} THEN 0 ELSE CHOOSE i \in hits : \A j \in hits : i <= j

erase(list, i) ==
  [k \in 1..(Len(list) - 1) |-> IF k < i THEN list[k] ELSE list[k + 1]]

(* stupid_strategy_t::alloc *)
stupid_alloc(w, s, pref) ==
  LET el == malloc(w, pref)
  IN IF el = NULL
     THEN [w EXCEPT !.oom = TRUE,
                    !.allocEls[s] = Append(@, el),
                    !.ptr = el]
     ELSE [w EXCEPT !.status[el] = "raw",
                    !.allocEls[s] = Append(@, el),
                    !.ptr = el]

(* free: the blocks go back to the system and the pointers to them turn stale *)
free(w, blocks) ==
  LET Moved(p) == IF p \in blocks /\ p # NULL THEN Stale ELSE p
  IN [w EXCEPT
        !.status = [a \in Addr |-> IF a \in blocks THEN "free" ELSE @[a]],
        !.heap = [a \in Addr |->
                    IF a \in blocks THEN Filler
                    ELSE [@[a] EXCEPT !.next = Moved(@), !.prev = Moved(@)]],
        !.deq = [d \in Deques |->
                   [@[d] EXCEPT !.start = Moved(@), !.tail = Moved(@)]],
        !.iter = Moved(@)]

(* stupid_strategy_t::dealloc *)
(* dealloc freeing the block whether or not the strategy tracks it. *)
stupid_dealloc_Unchecked(w, s, ptr) ==
  free([w EXCEPT !.allocEls[s] = SelectSeq(@, LAMBDA x : x # ptr)], {ptr})

stupid_dealloc(w, s, ptr) ==
  LET el == find(w.allocEls[s], ptr)
  IN IF el # 0
     THEN free([w EXCEPT !.allocEls[s] = erase(@, el)], {ptr})
     ELSE w

(* shared_ptr<alloc_strategy_t>: the holders of strategy s *)
UseCount(w, s) ==
  Cardinality({d \in Deques : w.deq[d].live /\ w.deq[d].allocator = s})
  + (IF s \in w.held THEN 1 ELSE 0)

(* Destructor that drops the list without freeing the blocks in it. *)
stupid_destroy_NoFree(w, dying) ==
  [w EXCEPT !.allocEls = [s \in Strategies |->
                            IF s \in dying THEN <<>> ELSE @[s]]]

(* stupid_strategy_t::~stupid_strategy_t, run for every strategy in dying *)
stupid_destroy(w, dying) ==
  LET freed == {a \in Addr : \E s \in dying : find(w.allocEls[s], a) # 0}
  IN free([w EXCEPT !.allocEls = [s \in Strategies |->
                                    IF s \in dying THEN <<>> ELSE @[s]]],
          freed)

(* A strategy dies when its last handle goes away. *)
ReleaseUnused(w) ==
  stupid_destroy(w, {s \in Strategies : UseCount(w, s) = 0})

(* single_allocator_t::alloc *)
single_alloc(w, s, pref, node) ==
  IF s = NoStrategy THEN [w EXCEPT !.ub = TRUE, !.ptr = NULL]
  ELSE LET w1 == stupid_alloc(w, s, pref)
       IN IF w1.ptr = NULL THEN [w1 EXCEPT !.ub = TRUE]
          ELSE [w1 EXCEPT !.heap[w1.ptr] = node, !.status[w1.ptr] = "live"]

(* single_allocator_t::dealloc *)
single_dealloc(w, s, ptr) ==
  IF w.ub THEN w
  ELSE IF s = NoStrategy \/ ~Valid(w, ptr)
  THEN [w EXCEPT !.ub = TRUE, !.deallocs = Append(@, ptr), !.via = Append(@, s)]
  ELSE stupid_dealloc([w EXCEPT !.status[ptr] = "raw",
                                !.deallocs = Append(@, ptr),
                                !.via = Append(@, s)], s, ptr)

(* deque_t::FreeList *)
RECURSIVE FreeListLoop(_, _, _, _)
FreeListLoop(w, node, s, fuel) ==
  IF node = NULL \/ w.ub THEN w
  ELSE IF fuel = 0 THEN [w EXCEPT !.ub = TRUE]
  ELSE LET w1 == Touch(w, node)
           next == Load(w1, node).next
       IN FreeListLoop(single_dealloc(w1, s, node), next, s, fuel - 1)

FreeList(w, begin, s) == FreeListLoop(w, begin, s, MaxAddr)

(* The front-to-back walk along next from a pointer, as far as it goes. *)
RECURSIVE WalkFrom(_, _, _)
WalkFrom(h, node, fuel) ==
  IF node \notin Addr \/ fuel = 0 THEN <<>>
  ELSE <<node>> \o WalkFrom(h, h[node].next, fuel - 1)

RECURSIVE WalkBack(_, _, _)
WalkBack(h, node, fuel) ==
  IF node \notin Addr \/ fuel = 0 THEN <<>>
  ELSE <<node>> \o WalkBack(h, h[node].prev, fuel - 1)

Nodes(d) == WalkFrom(heap, deq[d].start, MaxAddr + 1)
Elems(d) == [i \in DOMAIN Nodes(d) |-> heap[Nodes(d)[i]].data]
Range(f) == {f[i] : i \in DOMAIN f}

(* deque_t::IsEmpty *)
IsEmpty(d) == deq[d].start = NULL

(* What the last call gave back: a returned value or the exception thrown,   *)
(* and the pointers it passed to single_allocator_t::dealloc.                *)
Returned(v) == [ret |-> v, err |-> "none", deallocs |-> <<>>, via |-> <<>>]
Thrown(what) == [ret |-> 0, err |-> what, deallocs |-> <<>>, via |-> <<>>]

Undefined ==
  /\ undefined' = TRUE
  /\ result' = Thrown("undefined")
  /\ UNCHANGED <<heap, status, allocEls, held, deq, iter, out>>

Install(w, r) ==
  /\ heap' = w.heap
  /\ status' = w.status
  /\ allocEls' = w.allocEls
  /\ held' = w.held
  /\ deq' = w.deq
  /\ iter' = w.iter
  /\ result' = [r EXCEPT !.deallocs = w.deallocs, !.via = w.via]
  /\ UNCHANGED <<undefined, out>>

(* The call ends: its effects are installed, unless its behaviour was undefined. *)
Finish(w, r) ==
  /\ ~undefined
  /\ IF w.ub THEN Undefined ELSE Install(w, r)

Throw(what) ==
  /\ ~undefined
  /\ result' = Thrown(what)
  /\ UNCHANGED <<heap, status, allocEls, held, deq, undefined, iter, out>>

(* The orders in which malloc looks for a block: lowest or highest address first. *)
Prefs == {[i \in Addr |-> i], [i \in Addr |-> MaxAddr + 1 - i]}

Init ==
  /\ heap = [p \in Addr |-> Filler]
  /\ status = [a \in Addr |-> "free"]
  /\ allocEls = [s \in Strategies |-> <<>>]
  /\ held = Strategies
  /\ deq = [d \in Deques |-> NoDeque]
  /\ undefined = FALSE
  /\ iter = NoIter
  /\ out = [cout |-> <<>>, stream |-> <<>>, returned |-> "none"]
  /\ result = Returned(0)

(* deque_t::deque_t(strategy) *)
Construct(d, s) ==
  /\ ~deq[d].live
  /\ s \in held
  /\ Finish([World EXCEPT !.deq[d] =
               [live |-> TRUE, start |-> NULL, tail |-> NULL, allocator |-> s]],
            Returned(0))

(* deque_t::PushBack *)
(* PushBack leaving the old tail's next as it was. *)
PushBackW_Unlinked(w, d, data, pref) ==
  LET w1 == single_alloc(w, w.deq[d].allocator, pref,
                         node_t(data, w.deq[d].tail, NULL))
      w2 == [w1 EXCEPT !.deq[d].tail = w1.ptr]
  IN IF w1.ub \/ w1.oom THEN w1
     ELSE IF w2.deq[d].start = NULL
     THEN [w2 EXCEPT !.deq[d].start = w2.deq[d].tail]
     ELSE w2

PushBackW(w, d, data, pref) ==
  LET w1 == single_alloc(w, w.deq[d].allocator, pref,
                         node_t(data, w.deq[d].tail, NULL))
      w2 == [w1 EXCEPT !.deq[d].tail = w1.ptr]
  IN IF w1.ub \/ w1.oom THEN w1
     ELSE IF w2.deq[d].start = NULL
     THEN [w2 EXCEPT !.deq[d].start = w2.deq[d].tail]
     ELSE LET t == w2.deq[d].tail
          IN SetNext(w2, Load(w2, t).prev, t)

PushBack(d, data) ==
  /\ deq[d].live
  /\ Len(Nodes(d)) < MaxLen
  /\ \E pref \in Prefs :
       \E w \in {PushBackW(World, d, data, pref)} :
           Finish(w, Returned(0))

(* deque_t::PushFront *)
PushFrontW(w, d, data, pref) ==
  LET w1 == single_alloc(w, w.deq[d].allocator, pref,
                         node_t(data, NULL, w.deq[d].start))
      w2 == [w1 EXCEPT !.deq[d].start = w1.ptr]
  IN IF w1.ub \/ w1.oom THEN w1
     ELSE IF w2.deq[d].tail = NULL
     THEN [w2 EXCEPT !.deq[d].tail = w2.deq[d].start]
     ELSE LET b == w2.deq[d].start
          IN SetPrev(w2, Load(w2, b).next, b)

PushFront(d, data) ==
  /\ deq[d].live
  /\ Len(Nodes(d)) < MaxLen
  /\ \E pref \in Prefs :
       \E w \in {PushFrontW(World, d, data, pref)} :
           Finish(w, Returned(0))

(* deque_t::PopBack, past the emptiness test *)
PopBackW(w, d) ==
  LET t == w.deq[d].tail
      w1 == [Touch(w, t) EXCEPT !.ret = Load(w, t).data]
      tmp == Load(w1, t).prev
      w2 == single_dealloc(w1, w1.deq[d].allocator, t)
      w3 == [w2 EXCEPT !.deq[d].tail = tmp]
  IN IF w2.ub THEN w2
     ELSE IF tmp = NULL THEN [w3 EXCEPT !.deq[d].start = NULL]
     ELSE SetNext(w3, tmp, NULL)

(* PopBack without the emptiness test. *)
PopBack_Unchecked(d) ==
  /\ deq[d].live
  /\ \E w \in {PopBackW(World, d)} :
           Finish(w, Returned(w.ret))

PopBack(d) ==
  /\ deq[d].live
  /\ IF deq[d].tail = NULL
     THEN Throw("Empty list")
     ELSE \E w \in {PopBackW(World, d)} :
           Finish(w, Returned(w.ret))

(* deque_t::PopFront, past the emptiness test *)
PopFrontW(w, d) ==
  LET b == w.deq[d].start
      w1 == [Touch(w, b) EXCEPT !.ret = Load(w, b).data]
      tmp == Load(w1, b).next
      w2 == single_dealloc(w1, w1.deq[d].allocator, b)
      w3 == [w2 EXCEPT !.deq[d].start = tmp]
  IN IF w2.ub THEN w2
     ELSE IF tmp = NULL THEN [w3 EXCEPT !.deq[d].tail = NULL]
     ELSE SetPrev(w3, tmp, NULL)

PopFront(d) ==
  /\ deq[d].live
  /\ IF deq[d].start = NULL
     THEN Throw("Empty list")
     ELSE \E w \in {PopFrontW(World, d)} :
           Finish(w, Returned(w.ret))

(* deque_t::Clear *)
(* Clear leaving start and tail as they were. *)
ClearW_KeepsHead(w, d) ==
  FreeList(w, w.deq[d].start, w.deq[d].allocator)

ClearW(w, d) ==
  LET w1 == FreeList(w, w.deq[d].start, w.deq[d].allocator)
  IN [w1 EXCEPT !.deq[d].start = NULL, !.deq[d].tail = NULL]

Clear(d) ==
  /\ deq[d].live
  /\ \E w \in {ClearW(World, d)} :
           Finish(w, Returned(0))

(* deque_t::CopyList *)
RECURSIVE CopyListLoop(_, _, _, _, _, _)
CopyListLoop(w, d, node, prev, pref, fuel) ==
  IF w.ub \/ w.oom THEN w
  ELSE IF node = NULL
  THEN SetNext([w EXCEPT !.deq[d].tail = prev], prev, NULL)
  ELSE IF fuel = 0 THEN [w EXCEPT !.ub = TRUE]
  ELSE LET w1 == Touch(w, node)
           w2 == single_alloc(w1, w1.deq[d].allocator, pref,
                              node_t(Load(w1, node).data, prev, NULL))
           w3 == SetNext(w2, prev, w2.ptr)
       IN IF w2.ub \/ w2.oom THEN w2
          ELSE CopyListLoop(w3, d, Load(w3, node).next, Load(w3, prev).next,
                            pref, fuel - 1)

(* CopyList without the test for an empty source. *)
CopyList_NoNullCheck(w, d, beginToCopy, pref) ==
  LET w1 == Touch(w, beginToCopy)
      w2 == single_alloc(w1, w1.deq[d].allocator, pref,
                         Load(w1, beginToCopy))
      w3 == [w2 EXCEPT !.deq[d].start = w2.ptr]
  IN IF w1.ub \/ w2.ub \/ w2.oom THEN [w2 EXCEPT !.ub = w1.ub \/ w2.ub]
     ELSE CopyListLoop(w3, d, Load(w3, beginToCopy).next, w3.ptr,
                       pref, MaxAddr)

CopyList(w, d, beginToCopy, pref) ==
  IF beginToCopy = NULL
  THEN [w EXCEPT !.deq[d].start = NULL, !.deq[d].tail = NULL]
  ELSE LET w1 == Touch(w, beginToCopy)
           w2 == single_alloc(w1, w1.deq[d].allocator, pref,
                              Load(w1, beginToCopy))
           w3 == [w2 EXCEPT !.deq[d].start = w2.ptr]
       IN IF w2.ub \/ w2.oom THEN w2
          ELSE CopyListLoop(w3, d, Load(w3, beginToCopy).next, w3.ptr,
                            pref, MaxAddr)

(* deque_t::deque_t(deque_t const &) *)
CopyConstructW(w, d, lhs, pref) ==
  LET w1 == [w EXCEPT !.deq[d] = [live |-> TRUE, start |-> NULL, tail |-> NULL,
                                  allocator |-> w.deq[lhs].allocator]]
  IN IF w1.deq[lhs].start = NULL THEN w1
     ELSE CopyList(w1, d, w1.deq[lhs].start, pref)

CopyConstruct(d, lhs) ==
  /\ ~deq[d].live
  /\ deq[lhs].live
  /\ \E pref \in Prefs :
       \E w \in {CopyConstructW(World, d, lhs, pref)} :
           Finish(w, Returned(0))

(* deque_t::deque_t(deque_t const &, strategy) *)
CopyConstructStrategyW(w, d, lhs, strategy, pref) ==
  LET w1 == [w EXCEPT !.deq[d] = [live |-> TRUE, start |-> NULL, tail |-> NULL,
                                  allocator |-> strategy]]
  IN CopyList(w1, d, w1.deq[lhs].start, pref)

CopyConstructStrategy(d, lhs, strategy) ==
  /\ ~deq[d].live
  /\ deq[lhs].live
  /\ strategy \in held
  /\ \E pref \in Prefs :
       \E w \in {CopyConstructStrategyW(World, d, lhs, strategy, pref)} :
           Finish(w, Returned(0))

(* deque_t::deque_t(deque_t &&) *)
MoveConstructW(w, d, rhs) ==
  [w EXCEPT !.deq[d] = [live |-> TRUE, start |-> w.deq[rhs].start,
                        tail |-> w.deq[rhs].tail,
                        allocator |-> w.deq[rhs].allocator],
            !.deq[rhs] = [live |-> TRUE, start |-> NULL, tail |-> NULL,
                          allocator |-> NoStrategy]]

MoveConstruct(d, rhs) ==
  /\ ~deq[d].live
  /\ deq[rhs].live
  /\ \E w \in {MoveConstructW(World, d, rhs)} :
           Finish(w, Returned(0))

(* Copy assignment adopting the source's allocator before freeing the list. *)
CopyAssignW_AdoptFirst(w, d, lhs, pref) ==
  LET w0 == [w EXCEPT !.deq[d].allocator = w.deq[lhs].allocator]
      w1 == FreeList(w0, w0.deq[d].start, w0.deq[d].allocator)
      w2 == ReleaseUnused(w1)
  IN IF w1.ub THEN w1 ELSE CopyList(w2, d, w2.deq[lhs].start, pref)

(* deque_t::operator=(deque_t const &) *)
CopyAssignW(w, d, lhs, pref) ==
  LET w1 == FreeList(w, w.deq[d].start, w.deq[d].allocator)
      w2 == ReleaseUnused([w1 EXCEPT !.deq[d].allocator = w1.deq[lhs].allocator])
  IN IF w1.ub THEN w1 ELSE CopyList(w2, d, w2.deq[lhs].start, pref)

CopyAssign(d, lhs) ==
  /\ deq[d].live
  /\ deq[lhs].live
  /\ \E pref \in Prefs :
       \E w \in {CopyAssignW(World, d, lhs, pref)} :
           Finish(w, Returned(0))

(* deque_t::Copy *)
CopyW(w, d, lhs, strategy, pref) ==
  LET w1 == FreeList(w, w.deq[d].start, w.deq[d].allocator)
      w2 == ReleaseUnused([w1 EXCEPT !.deq[d].allocator = strategy])
  IN IF w1.ub THEN w1 ELSE CopyList(w2, d, w2.deq[lhs].start, pref)

Copy(d, lhs, strategy) ==
  /\ deq[d].live
  /\ deq[lhs].live
  /\ strategy \in held
  /\ \E pref \in Prefs :
       \E w \in {CopyW(World, d, lhs, strategy, pref)} :
           Finish(w, Returned(0))

(* deque_t::operator=(deque_t &&) *)
(* Move assignment leaving the source's start and tail as they were. *)
MoveAssignW_KeepSource(w, d, rhs) ==
  LET w1 == FreeList(w, w.deq[d].start, w.deq[d].allocator)
      moved == w1.deq[rhs].allocator
      w2 == IF d = rhs THEN w1
            ELSE [w1 EXCEPT !.deq[rhs].allocator = NoStrategy,
                            !.deq[d].allocator = moved]
      w3 == [w2 EXCEPT !.deq[d].start = w2.deq[rhs].start,
                       !.deq[d].tail = w2.deq[rhs].tail]
  IN IF w1.ub THEN w1 ELSE ReleaseUnused(w3)

MoveAssignW(w, d, rhs) ==
  LET w1 == FreeList(w, w.deq[d].start, w.deq[d].allocator)
      moved == w1.deq[rhs].allocator
      w2 == IF d = rhs THEN w1
            ELSE [w1 EXCEPT !.deq[rhs].allocator = NoStrategy,
                            !.deq[d].allocator = moved]
      w3 == [w2 EXCEPT !.deq[d].start = w2.deq[rhs].start,
                       !.deq[d].tail = w2.deq[rhs].tail]
      w4 == [w3 EXCEPT !.deq[rhs].tail = NULL, !.deq[rhs].start = NULL]
  IN IF w1.ub THEN w1 ELSE ReleaseUnused(w4)

MoveAssign(d, rhs) ==
  /\ deq[d].live
  /\ deq[rhs].live
  /\ \E w \in {MoveAssignW(World, d, rhs)} :
           Finish(w, Returned(0))

(* Destructor that lets go of the list without freeing its nodes. *)
DestroyW_NoFree(w, d) ==
  ReleaseUnused([w EXCEPT !.deq[d] = NoDeque])

(* deque_t::~deque_t *)
DestroyW(w, d) ==
  LET w1 == FreeList(w, w.deq[d].start, w.deq[d].allocator)
  IN IF w1.ub THEN w1 ELSE ReleaseUnused([w1 EXCEPT !.deq[d] = NoDeque])

Destroy(d) ==
  /\ deq[d].live
  /\ \E w \in {DestroyW(World, d)} :
           Finish(w, Returned(0))

(* deque_t::ChangeAllocator *)
RECURSIVE ChangeAllocatorLoop(_, _, _, _, _, _)
ChangeAllocatorLoop(w, d, node, prev, pref, fuel) ==
  IF w.ub \/ w.oom THEN w
  ELSE IF node = NULL
  THEN SetNext([w EXCEPT !.deq[d].tail = prev], prev, NULL)
  ELSE IF fuel = 0 THEN [w EXCEPT !.ub = TRUE]
  ELSE LET w1 == Touch(w, node)
           w2 == single_alloc(w1, w1.deq[d].allocator, pref,
                              node_t(Load(w1, node).data, prev, NULL))
           w3 == SetNext(w2, prev, w2.ptr)
       IN IF w2.ub \/ w2.oom THEN w2
          ELSE ChangeAllocatorLoop(w3, d, Load(w3, node).next,
                                   Load(w3, prev).next, pref, fuel - 1)

ChangeAllocatorW(w, d, strategy, pref) ==
  LET prevAllocator == w.deq[d].allocator
      w0 == [w EXCEPT !.deq[d].allocator = strategy]
  IN IF w0.deq[d].start = NULL THEN ReleaseUnused(w0)
     ELSE LET w1 == Touch(w0, w0.deq[d].start)
              w2 == single_alloc(w1, strategy, pref, Load(w1, w1.deq[d].start))
              w3 == [w2 EXCEPT !.deq[d].start = w2.ptr]
              w4 == ChangeAllocatorLoop(w3, d, Load(w3, w3.deq[d].start).next,
                                        w3.deq[d].start, pref, MaxAddr)
              w5 == FreeList(w4, w4.deq[d].start, prevAllocator)
          IN IF w2.ub \/ w2.oom THEN w2
             ELSE IF w4.ub \/ w4.oom THEN w4
             ELSE IF w5.ub THEN w5
             ELSE ReleaseUnused(w5)

ChangeAllocator(d, strategy) ==
  /\ deq[d].live
  /\ strategy \in held
  /\ \E pref \in Prefs :
       \E w \in {ChangeAllocatorW(World, d, strategy, pref)} :
           Finish(w, Returned(0))

(* The client drops its own shared_ptr to a strategy. *)
Release(s) ==
  /\ s \in held
  /\ Finish(ReleaseUnused([World EXCEPT !.held = @ \ {s}]), Returned(0))

(* The client calls alloc of a strategy it holds, until a call has failed. *)
StrategyAlloc(s) ==
  /\ s \in held
  /\ find(allocEls[s], NULL) = 0
  /\ \E pref \in Prefs :
       \E w \in {stupid_alloc(World, s, pref)} :
         Finish(w, Returned(w.ptr))

(* The client calls dealloc of a strategy it holds, with any pointer. *)
StrategyDealloc(s, ptr) ==
  /\ s \in held
  /\ Finish(stupid_dealloc(World, s, ptr), Returned(0))

(* deque_t::begin *)
begin(d) ==
  /\ deq[d].live
  /\ Finish([World EXCEPT !.iter = deq[d].start], Returned(0))

(* deque_t::end *)
end(d) ==
  /\ deq[d].live
  /\ Finish([World EXCEPT !.iter = NULL], Returned(0))

(* iterator_t::operator*, the referenced element being read *)
DerefW(w) == [Touch(w, w.iter) EXCEPT !.ret = Load(w, w.iter).data]

Deref ==
  /\ iter # NoIter
  /\ IF iter = NULL
     THEN Throw("Try to use end iterator")
     ELSE \E w \in {DerefW(World)} :
           Finish(w, Returned(w.ret))

(* iterator_t::operator*, the referenced element being assigned *)
DerefAssign(v) ==
  /\ iter # NoIter
  /\ IF iter = NULL
     THEN Throw("Try to use end iterator")
     ELSE Finish(SetData(World, iter, v), Returned(0))

(* iterator_t::operator++(void) *)
(* Increment following prev instead of next. *)
IncrementW_Prev(w) == [Touch(w, w.iter) EXCEPT !.iter = Load(w, w.iter).prev]

IncrementW(w) == [Touch(w, w.iter) EXCEPT !.iter = Load(w, w.iter).next]

(* Prefix increment without the test for the end iterator. *)
PreIncrement_Unchecked ==
  /\ iter # NoIter
  /\ \E w \in {IncrementW(World)} :
           Finish(w, Returned(0))

PreIncrement ==
  /\ iter # NoIter
  /\ IF iter = NULL
     THEN Throw("Try to use end iterator")
     ELSE \E w \in {IncrementW(World)} :
           Finish(w, Returned(0))

(* iterator_t::operator++(int) *)
PostIncrement ==
  /\ iter # NoIter
  /\ IF iter = NULL
     THEN Throw("Try to use end iterator")
     ELSE \E w \in {IncrementW(World)} :
           Finish(w, Returned(0))

(* The output streams a caller can pass to operator<<: std::cout itself or  *)
(* another stream.                                                          *)
Streams == {"cout", "stream"}

(* operator<<: the loop over the nodes, writing each element and ", " *)
RECURSIVE operator_shl_Loop(_, _, _, _)
operator_shl_Loop(w, node, text, fuel) ==
  IF node = NULL \/ w.ub THEN [ub |-> w.ub, text |-> text]
  ELSE IF fuel = 0 THEN [ub |-> TRUE, text |-> text]
  ELSE LET w1 == Touch(w, node)
       IN operator_shl_Loop(w1, Load(w1, node).next,
                            text \o <<Load(w1, node).data, ", ">>, fuel - 1)

(* operator<<(std::ostream &, deque_t<T> const &); out holds what the call  *)
(* wrote to each stream and the stream it returned.                         *)
operator_shl_W(w, stream, d) ==
  LET r == operator_shl_Loop(w, w.deq[d].start, <<>>, MaxAddr)
  IN [ub |-> r.ub,
      out |-> [s \in Streams |-> IF s = "cout" THEN r.text ELSE <<>>]
                @@ [returned |-> stream]]

operator_shl(stream, d) ==
  /\ ~undefined
  /\ deq[d].live
  /\ \E r \in {operator_shl_W(World, stream, d)} :
       IF r.ub THEN Undefined
       ELSE /\ out' = r.out
            /\ result' = Returned(0)
            /\ UNCHANGED <<heap, status, allocEls, held, deq, undefined, iter>>

(* Push and pop on one deque. *)
NextPushPop ==
  \/ \E s \in Strategies : Construct("A", s)
  \/ \E v \in Values : PushBack("A", v)
  \/ \E v \in Values : PushFront("A", v)
  \/ PopBack("A")
  \/ PopFront("A")

SpecPushPop == Init /\ [][NextPushPop]_vars

(* Push, pop and Clear on one deque. *)
NextClear ==
  \/ \E s \in Strategies : Construct("A", s)
  \/ \E v \in Values : PushBack("A", v)
  \/ \E v \in Values : PushFront("A", v)
  \/ PopBack("A")
  \/ PopFront("A")
  \/ Clear("A")

SpecClear == Init /\ [][NextClear]_vars

(* The whole life of one deque, the only user of its strategy: the client  *)
(* keeps its handles and never allocates through them.                      *)
NextLife ==
  \/ \E s \in Strategies : Construct("A", s)
  \/ \E v \in Values : PushBack("A", v)
  \/ \E v \in Values : PushFront("A", v)
  \/ PopBack("A")
  \/ PopFront("A")
  \/ Clear("A")
  \/ Destroy("A")

SpecLife == Init /\ [][NextLife]_vars

(* Two deques, B taking over the list of A by move.  The client keeps its   *)
(* handle to S1 and may drop the one to S2.                                 *)
NextMove ==
  \/ \E d \in Deques, s \in Strategies : Construct(d, s)
  \/ \E d \in Deques, v \in Values : PushBack(d, v)
  \/ MoveConstruct("B", "A")
  \/ MoveAssign("B", "A")
  \/ \E d \in Deques : Destroy(d)
  \/ Release("S2")

SpecMove == Init /\ [][NextMove]_vars

(* Two deques, B made a copy of A: A is bound to S1 and filled by pushes,   *)
(* B is constructed on either strategy and gets its elements by copying.    *)
(* The client keeps its handle to S1 and may drop the one to S2.            *)
NextCopy ==
  \/ Construct("A", "S1")
  \/ \E s \in Strategies : Construct("B", s)
  \/ \E v \in Values : PushBack("A", v)
  \/ CopyConstruct("B", "A")
  \/ \E s \in Strategies : CopyConstructStrategy("B", "A", s)
  \/ CopyAssign("B", "A")
  \/ \E s \in Strategies : Copy("B", "A", s)
  \/ \E d \in Deques : Destroy(d)
  \/ Release("S2")

SpecCopy == Init /\ [][NextCopy]_vars

(* Two deques filled by pushes, B then assigned from A and destroyed; the   *)
(* client keeps both strategy handles.                                      *)
NextAssign ==
  \/ Construct("A", "S1")
  \/ Construct("B", "S2")
  \/ \E d \in Deques, v \in Values : PushBack(d, v)
  \/ CopyAssign("B", "A")
  \/ \E s \in Strategies : Copy("B", "A", s)
  \/ MoveAssign("B", "A")
  \/ Destroy("B")

SpecAssign == Init /\ [][NextAssign]_vars

(* One deque, printed after pushes and pops. *)
NextOut ==
  \/ \E s \in Strategies : Construct("A", s)
  \/ \E v \in Values : PushBack("A", v)
  \/ \E v \in Values : PushFront("A", v)
  \/ PopFront("A")
  \/ \E stream \in Streams : operator_shl(stream, "A")

SpecOut == Init /\ [][NextOut]_vars

(* One deque assigned from itself. *)
NextSelf ==
  \/ \E s \in Strategies : Construct("A", s)
  \/ \E v \in Values : PushBack("A", v)
  \/ \E v \in Values : PushFront("A", v)
  \/ PopBack("A")
  \/ PopFront("A")
  \/ CopyAssign("A", "A")
  \/ \E s \in Strategies : Copy("A", "A", s)

SpecSelf == Init /\ [][NextSelf]_vars

(* One deque whose allocation strategy is changed. *)
NextChange ==
  \/ \E s \in Strategies : Construct("A", s)
  \/ \E v \in Values : PushBack("A", v)
  \/ \E v \in Values : PushFront("A", v)
  \/ PopBack("A")
  \/ PopFront("A")
  \/ \E s \in Strategies : ChangeAllocator("A", s)
  \/ \E s \in Strategies : Release(s)

SpecChange == Init /\ [][NextChange]_vars

(* One deque and an iterator over it. *)
NextIter ==
  \/ \E s \in Strategies : Construct("A", s)
  \/ \E v \in Values : PushBack("A", v)
  \/ PopFront("A")
  \/ begin("A")
  \/ end("A")
  \/ Deref
  \/ \E v \in Values : DerefAssign(v)
  \/ PreIncrement
  \/ PostIncrement

SpecIter == Init /\ [][NextIter]_vars

(* A client using two strategies directly. *)
NextStrategy ==
  \/ \E s \in Strategies : StrategyAlloc(s)
  \/ \E s \in Strategies, ptr \in Addr \cup {NULL} : StrategyDealloc(s, ptr)
  \/ \E s \in Strategies : Release(s)

SpecStrategy == Init /\ [][NextStrategy]_vars

(* One deque, and a client that takes blocks from S2 until none is left. *)
NextOom ==
  \/ Construct("A", "S1")
  \/ \E v \in Values : PushBack("A", v)
  \/ \E v \in Values : PushFront("A", v)
  \/ PopFront("A")
  \/ ChangeAllocator("A", "S2")
  \/ StrategyAlloc("S2")

SpecOom == Init /\ [][NextOom]_vars

(* No block is handed out that no deque reaches. *)
NoLeak ==
  \A a \in Addr :
    status[a] # "free" => \E d \in Deques : a \in Range(Nodes(d))

(* Deque A and a copy B of it, each then changed on its own; the strategy   *)
(* of a deque is changed while no block has leaked.                         *)
NextIndep ==
  \/ Construct("A", "S1")
  \/ CopyConstruct("B", "A")
  \/ \E s \in Strategies : CopyConstructStrategy("B", "A", s)
  \/ CopyAssign("B", "A")
  \/ \E s \in Strategies : Copy("B", "A", s)
  \/ \E d \in Deques, v \in Values : PushBack(d, v)
  \/ \E d \in Deques : PopFront(d)
  \/ \E d \in Deques : Clear(d)
  \/ \E d \in Deques, s \in Strategies : NoLeak /\ ChangeAllocator(d, s)

SpecIndep == Init /\ [][NextIndep]_vars

(* Every operation, on two deques. *)
Next ==
  \/ \E d \in Deques, s \in Strategies : Construct(d, s)
  \/ \E d \in Deques, v \in Values : PushBack(d, v)
  \/ \E d \in Deques, v \in Values : PushFront(d, v)
  \/ \E d \in Deques : PopBack(d)
  \/ \E d \in Deques : PopFront(d)
  \/ \E d \in Deques : Clear(d)
  \/ \E d \in Deques, lhs \in Deques : CopyConstruct(d, lhs)
  \/ \E d \in Deques, lhs \in Deques, s \in Strategies : CopyConstructStrategy(d, lhs, s)
  \/ \E d \in Deques, rhs \in Deques : MoveConstruct(d, rhs)
  \/ \E d \in Deques, lhs \in Deques : CopyAssign(d, lhs)
  \/ \E d \in Deques, lhs \in Deques, s \in Strategies : Copy(d, lhs, s)
  \/ \E d \in Deques, rhs \in Deques : MoveAssign(d, rhs)
  \/ \E d \in Deques : Destroy(d)
  \/ \E d \in Deques, s \in Strategies : ChangeAllocator(d, s)
  \/ \E s \in Strategies : Release(s)

Spec == Init /\ [][Next]_vars

(***************************************************************************)
(* Properties                                                              *)
(***************************************************************************)

(* The list of deque d is well formed. *)
ListShape(d) ==
  LET ns == Nodes(d)
      bs == WalkBack(heap, deq[d].tail, MaxAddr + 1)
  IN /\ (deq[d].start = NULL) <=> (deq[d].tail = NULL)
     /\ deq[d].start # NULL =>
          /\ deq[d].start \in Addr
          /\ deq[d].tail \in Addr
          /\ \A i \in DOMAIN ns : status[ns[i]] # "free"
          /\ heap[deq[d].start].prev = NULL
          /\ heap[deq[d].tail].next = NULL
          /\ Len(ns) <= MaxAddr
          /\ ns[Len(ns)] = deq[d].tail
          /\ Len(bs) = Len(ns)
          /\ bs[Len(bs)] = deq[d].start
          /\ \A i \in 1..(Len(ns) - 1) : heap[heap[ns[i]].next].prev = ns[i]

Last(q) == q[Len(q)]
Front(q) == SubSeq(q, 1, Len(q) - 1)

(* C1: on a deque that starts empty, every PushBack(v) appends v to the     *)
(* front-to-back walk, every PushFront(v) prepends v, every successful      *)
(* PopFront returns and removes the first element of the walk and every     *)
(* successful PopBack the last, so the walk from the head is the abstract   *)
(* sequence of the calls made so far.                                       *)
C1_PushPopRefineSequence ==
  [][/\ (\E s \in Strategies : Construct("A", s)) =>
          /\ ~undefined'
          /\ Elems("A")' = <<>>
     /\ \A v \in Values : PushBack("A", v) =>
          /\ ~undefined'
          /\ Elems("A")' = Append(Elems("A"), v)
     /\ \A v \in Values : PushFront("A", v) =>
          /\ ~undefined'
          /\ Elems("A")' = <<v>> \o Elems("A")
     /\ (PopFront("A") /\ Elems("A") # <<>>) =>
          /\ ~undefined'
          /\ result'.err = "none"
          /\ result'.ret = Head(Elems("A"))
          /\ Elems("A")' = Tail(Elems("A"))
     /\ (PopBack("A") /\ Elems("A") # <<>>) =>
          /\ ~undefined'
          /\ result'.err = "none"
          /\ result'.ret = Last(Elems("A"))
          /\ Elems("A")' = Front(Elems("A"))
     /\ (PopFront("A") /\ Elems("A") = <<>>) => (result'.err = "Empty list")
     /\ (PopBack("A") /\ Elems("A") = <<>>) => (result'.err = "Empty list")
    ]_vars

(* A pop has just returned 2 from a deque holding <<2, 1>>, leaving <<1>>. *)
C1_Witness ==
  /\ deq["A"].live
  /\ Elems("A") = <<1>>
  /\ result.err = "none"
  /\ result.ret = 2
  /\ Len(result.deallocs) = 1
  /\ Cardinality({a \in Addr : status[a] # "free"}) = 1

(* C2: in every reachable state the list of every deque is well formed:     *)
(* head null iff tail null, head.prev and tail.next null, the walk along    *)
(* next from the head ends at the tail, the walk along prev from the tail   *)
(* ends at the head after as many steps, and n.next.prev = n.               *)
C2_ListShape == \A d \in Deques : deq[d].live => ListShape(d)

(* C3: PopBack and PopFront on a deque with no elements throw "Empty list"  *)
(* and change nothing: start, tail, the allocator, the blocks of every      *)
(* strategy stay as they were and no dealloc is issued.                     *)
C3_PopEmptyThrows ==
  [][((PopBack("A") \/ PopFront("A")) /\ Elems("A") = <<>>) =>
       /\ result' = Thrown("Empty list")
       /\ result'.deallocs = <<>>
       /\ UNCHANGED <<heap, status, allocEls, held, deq, undefined, iter, out>>
    ]_vars

(* A pop has just failed on an empty deque. *)
C3_Witness ==
  /\ deq["A"].live
  /\ deq["A"].start = NULL
  /\ deq["A"].tail = NULL
  /\ result = Thrown("Empty list")

(* C4: move construction and move assignment of B from A leave A empty     *)
(* (start and tail null), give B the very nodes A had, in the same order    *)
(* with the same values, allocate no block, deallocate none of the nodes    *)
(* handed over, and leave no node reachable from both.                      *)
C4_MoveTransfersNodes ==
  [][(MoveConstruct("B", "A") \/ MoveAssign("B", "A")) =>
       /\ ~undefined'
       /\ IsEmpty("A")'
       /\ deq'["A"].tail = NULL
       /\ Nodes("B")' = Nodes("A")
       /\ Elems("B")' = Elems("A")
       /\ deq'["B"].tail = deq["A"].tail
       /\ \A n \in Range(Nodes("A")) :
            /\ status'[n] = "live"
            /\ heap'[n] = heap[n]
            /\ find(result'.deallocs, n) = 0
            /\ find(allocEls'[deq'["B"].allocator], n) # 0
       /\ {a \in Addr : status'[a] # "free"} \subseteq {a \in Addr : status[a] # "free"}
       /\ Range(Nodes("A")') \cap Range(Nodes("B")') = {}
    ]_vars

(* B, which held one node, has been move-assigned the two nodes of A. *)
C4_Witness ==
  /\ deq["A"].live
  /\ deq["A"].allocator = NoStrategy
  /\ IsEmpty("A")
  /\ Elems("B") = <<1, 2>>
  /\ Len(result.deallocs) = 1

(* C5: copy construction (with the source's strategy or a given one), copy  *)
(* assignment and Copy of B from A give B the sequence of A in a well       *)
(* formed list of nodes allocated by this call from B's strategy, none of   *)
(* them a node of A, and leave A as it was; from an empty A, B is empty and *)
(* no block is allocated; no null or freed pointer is dereferenced.         *)
C5_CopyIsDeep ==
  [][(\/ CopyConstruct("B", "A")
      \/ \E s \in Strategies : CopyConstructStrategy("B", "A", s)
      \/ CopyAssign("B", "A")
      \/ \E s \in Strategies : Copy("B", "A", s)) =>
       /\ ~undefined'
       /\ Elems("B")' = Elems("A")
       /\ Nodes("A")' = Nodes("A")
       /\ Elems("A")' = Elems("A")
       /\ ListShape("B")'
       /\ \A n \in Range(Nodes("B")') :
            /\ n \notin Range(Nodes("A"))
            /\ status'[n] = "live"
            /\ find(allocEls'[deq'["B"].allocator], n) # 0
            /\ status[n] = "free" \/ find(result'.deallocs, n) # 0
       /\ IsEmpty("A") =>
            /\ deq'["B"].start = NULL
            /\ deq'["B"].tail = NULL
            /\ {a \in Addr : status'[a] # "free"} \subseteq {a \in Addr : status[a] # "free"}
       /\ Len(Elems("A")) = 1 =>
            /\ deq'["B"].start = deq'["B"].tail
            /\ heap'[deq'["B"].start].next = NULL
            /\ heap'[deq'["B"].start].prev = NULL
    ]_vars

(* B, which held a node, has been made a copy of A = <<1, 2>> on another strategy. *)
C5_Witness ==
  /\ deq["A"].live
  /\ deq["B"].live
  /\ Elems("A") = <<1, 2>>
  /\ Elems("B") = <<1, 2>>
  /\ deq["A"].allocator # deq["B"].allocator
  /\ Range(Nodes("A")) \cap Range(Nodes("B")) = {}
  /\ result.deallocs # <<>>

Other(d) == IF d = "A" THEN "B" ELSE "A"

(* C6: a copy B of a well formed A shares no node with A, and every         *)
(* PushBack, PopFront, Clear and ChangeAllocator made afterwards on one of  *)
(* the two is a defined call that leaves the nodes and the values of the    *)
(* other as they were.                                                      *)
C6_CopyIndependence ==
  [][/\ (/\ ListShape("A")
         /\ \/ CopyConstruct("B", "A")
            \/ \E s \in Strategies : CopyConstructStrategy("B", "A", s)
            \/ CopyAssign("B", "A")
            \/ \E s \in Strategies : Copy("B", "A", s)) =>
          /\ ~undefined'
          /\ Range(Nodes("A")') \cap Range(Nodes("B")') = {}
     /\ \A d \in Deques :
          (/\ deq["A"].live
           /\ deq["B"].live
           /\ \/ \E v \in Values : PushBack(d, v)
              \/ PopFront(d)
              \/ Clear(d)
              \/ \E s \in Strategies : ChangeAllocator(d, s)) =>
            /\ ~undefined'
            /\ Nodes(Other(d))' = Nodes(Other(d))
            /\ Elems(Other(d))' = Elems(Other(d))
            /\ Range(Nodes("A")') \cap Range(Nodes("B")') = {}
    ]_vars

(* C7: ChangeAllocator on a well formed deque is a defined call that keeps  *)
(* the values and their order and leaves the deque well formed, holding     *)
(* them in allocated nodes, so that IsEmpty and the pops that follow give   *)
(* what they would have given without the call.                             *)
C7_ChangeAllocatorPreserves ==
  [][\A s \in Strategies :
       (ListShape("A") /\ ChangeAllocator("A", s)) =>
         /\ ~undefined'
         /\ IsEmpty("A")' = IsEmpty("A")
         /\ Elems("A")' = Elems("A")
         /\ ListShape("A")'
    ]_vars

(* C8: after ChangeAllocator(s2) on a deque bound to s1 # s2 whose nodes    *)
(* are exactly the blocks s1 tracks, s1 tracks no block and no node of the  *)
(* deque is a block of s1.                                                  *)
C8_OldStrategyDrained ==
  [][\A s1 \in Strategies : \A s2 \in Strategies \ {s1} :
       (/\ deq["A"].allocator = s1
        /\ ListShape("A")
        /\ Range(allocEls[s1]) = Range(Nodes("A"))
        /\ ChangeAllocator("A", s2)) =>
         /\ ~undefined'
         /\ allocEls'[s1] = <<>>
         /\ \A n \in Range(Nodes("A")') : find(allocEls'[s1], n) = 0
    ]_vars

(* C9: Clear passes every node of the deque to dealloc once, in list order, *)
(* leaves these blocks free and tracked by no strategy, touches no other    *)
(* block, and leaves the deque as its constructor would for the same        *)
(* strategy: start and tail null, so IsEmpty holds.                         *)
C9_ClearFreesAll ==
  [][Clear("A") =>
       /\ ~undefined'
       /\ result'.deallocs = Nodes("A")
       /\ \A n \in Range(Nodes("A")) :
            /\ status'[n] = "free"
            /\ \A s \in Strategies : find(allocEls'[s], n) = 0
       /\ \A a \in Addr \ Range(Nodes("A")) :
            /\ status'[a] = status[a]
            /\ heap'[a] = heap[a]
       /\ deq'["A"] = [live |-> TRUE, start |-> NULL, tail |-> NULL,
                        allocator |-> deq["A"].allocator]
       /\ IsEmpty("A")'
    ]_vars

(* Clear has just freed the two nodes of a deque. *)
C9_Witness ==
  /\ deq["A"].live
  /\ IsEmpty("A")
  /\ Len(result.deallocs) = 2
  /\ \A a \in Addr : status[a] = "free"

(* C10: operator*, prefix ++ and postfix ++ on an iterator equal to end(),  *)
(* begin() of an empty deque included, throw "Try to use end iterator" and  *)
(* leave the iterator and the deque as they were.                           *)
C10_EndIteratorThrows ==
  [][/\ (iter = NULL /\ (Deref \/ PreIncrement \/ PostIncrement)) =>
          /\ result' = Thrown("Try to use end iterator")
          /\ UNCHANGED <<heap, status, allocEls, held, deq, undefined, iter, out>>
     /\ end("A") => iter' = NULL
     /\ (begin("A") /\ IsEmpty("A")) => iter' = NULL
    ]_vars

(* An iterator taken from a deque of one element has been advanced to the   *)
(* end and its use has then failed.                                         *)
C10_Witness ==
  /\ iter = NULL
  /\ Elems("A") # <<>>
  /\ result = Thrown("Try to use end iterator")

(* C11: begin() gives the first node (end() when there is none); on an      *)
(* iterator at the k-th node of the list operator* gives the k-th value and *)
(* either ++ moves it to node k+1, or to end() from the last node, so a     *)
(* traversal visits the values in order, each node once, and reaches end()  *)
(* after as many advances as there are elements; none of these calls        *)
(* changes the list.                                                        *)
C11_IterationInOrder ==
  [][LET ns == Nodes("A")
         k == find(ns, iter)
     IN /\ begin("A") =>
             /\ iter' = (IF ns = <<>> THEN NULL ELSE ns[1])
             /\ UNCHANGED <<heap, status, allocEls, deq, undefined>>
        /\ (k # 0 /\ Deref) =>
             /\ result'.err = "none"
             /\ result'.ret = Elems("A")[k]
             /\ UNCHANGED <<heap, status, allocEls, deq, undefined, iter>>
        /\ (k # 0 /\ (PreIncrement \/ PostIncrement)) =>
             /\ result'.err = "none"
             /\ iter' = (IF k < Len(ns) THEN ns[k + 1] ELSE NULL)
             /\ UNCHANGED <<heap, status, allocEls, deq, undefined>>
        /\ Cardinality(Range(ns)) = Len(ns)
    ]_vars

(* The iterator stands on the second node of <<1, 2>> and has just read 2. *)
C11_Witness ==
  /\ Elems("A") = <<1, 2>>
  /\ iter = Nodes("A")[2]
  /\ result.err = "none"
  /\ result.ret = 2
  /\ result.deallocs = <<>>

(* C12: dealloc of a strategy with a block it does not track changes       *)
(* nothing; with a block it tracks it frees that block, removes that one    *)
(* entry from its list, and touches no other block and no other strategy.   *)
C12_DeallocOwnedOrNoop ==
  [][\A s \in Strategies : \A ptr \in Addr :
       StrategyDealloc(s, ptr) =>
         /\ ~undefined'
         /\ result'.err = "none"
         /\ IF find(allocEls[s], ptr) = 0
            THEN UNCHANGED <<heap, status, allocEls, held, deq, iter>>
            ELSE /\ status[ptr] # "free"
                 /\ status'[ptr] = "free"
                 /\ allocEls'[s] = SelectSeq(allocEls[s], LAMBDA x : x # ptr)
                 /\ Len(allocEls'[s]) = Len(allocEls[s]) - 1
                 /\ \A t \in Strategies \ {s} : allocEls'[t] = allocEls[t]
                 /\ \A a \in Addr \ {ptr} : status'[a] = status[a]
    ]_vars

(* Blocks 1 and 2 were handed out and block 1 has been returned. *)
C12_Witness ==
  /\ held = Strategies
  /\ allocEls["S1"] = <<2>>
  /\ allocEls["S2"] = <<>>
  /\ status[2] = "raw"
  /\ \A a \in Addr \ {2} : status[a] = "free"

(* C13: when no block is left, alloc of a strategy ends with the            *)
(* out-of-memory condition, returning no block and adding nothing to its    *)
(* list.                                                                    *)
C13_AllocReportsOutOfMemory ==
  [][\A s \in Strategies :
       (StrategyAlloc(s) /\ \A a \in Addr : status[a] # "free") =>
         /\ result'.err = "out of memory"
         /\ allocEls'[s] = allocEls[s]
         /\ UNCHANGED <<heap, status>>
    ]_vars

FreeBlocks == {a \in Addr : status[a] = "free"}

(* C14: a PushBack or PushFront whose allocation finds no block ends with   *)
(* the out-of-memory condition and leaves start, tail, every node and the   *)
(* strategies' lists as they were.                                          *)
C14_PushStrongSafety ==
  [][\A v \in Values :
       (/\ ListShape("A")
        /\ deq["A"].allocator = "S1"
        /\ FreeBlocks = {}
        /\ PushBack("A", v) \/ PushFront("A", v)) =>
         /\ ~undefined'
         /\ result'.err = "out of memory"
         /\ UNCHANGED <<deq, heap, status, allocEls>>
    ]_vars

(* C15: a ChangeAllocator that runs out of blocks while rebuilding the list *)
(* ends with the out-of-memory condition and leaves the deque as it was:    *)
(* same start and tail, same nodes and values, same strategy, no node       *)
(* freed.                                                                   *)
C15_ChangeAllocatorTransactional ==
  [][(/\ ListShape("A")
      /\ deq["A"].allocator = "S1"
      /\ Len(Nodes("A")) > Cardinality(FreeBlocks)
      /\ ChangeAllocator("A", "S2")) =>
        /\ ~undefined'
        /\ result'.err = "out of memory"
        /\ deq' = deq
        /\ \A n \in Range(Nodes("A")) : heap'[n] = heap[n] /\ status'[n] = status[n]
    ]_vars

(* C16: no call ends in undefined behaviour; every pointer a call passes to *)
(* dealloc is a node that was constructed and had not been passed to        *)
(* dealloc before, none is passed twice, and every node a deque reaches     *)
(* after the call is one that dealloc has not been called on.               *)
C16_NoDoubleDeallocNoUseAfter ==
  [][/\ ~undefined'
     /\ \A i \in DOMAIN result'.deallocs :
          /\ status[result'.deallocs[i]] = "live"
          /\ \A j \in DOMAIN result'.deallocs :
               result'.deallocs[j] = result'.deallocs[i] => j = i
     /\ \A d \in Deques :
          deq'[d].live => \A n \in Range(Nodes(d)') : status'[n] = "live"
    ]_vars

(* C17: copy assignment, Copy and move assignment pass every node of the    *)
(* destination to dealloc through the strategy the destination is bound to  *)
(* at the start of the call, which is the one tracking the node; the        *)
(* destination ends bound to the strategy it adopts, and the nodes a copy   *)
(* builds are blocks of that strategy.                                      *)
C17_FreeThroughOldAllocator ==
  [][LET old == deq["B"].allocator
         Freed == /\ ~undefined'
                  /\ result'.deallocs = Nodes("B")
                  /\ \A i \in DOMAIN result'.via :
                       /\ result'.via[i] = old
                       /\ find(allocEls[old], result'.deallocs[i]) # 0
         Built(new) == /\ deq'["B"].allocator = new
                       /\ Elems("B")' = Elems("A")
                       /\ \A n \in Range(Nodes("B")') :
                            find(allocEls'[new], n) # 0
     IN /\ CopyAssign("B", "A") => (Freed /\ Built(deq["A"].allocator))
        /\ \A s \in Strategies : Copy("B", "A", s) => (Freed /\ Built(s))
        /\ MoveAssign("B", "A") =>
             /\ Freed
             /\ deq'["B"].allocator = deq["A"].allocator
             /\ Nodes("B")' = Nodes("A")
    ]_vars

(* B, which held a node of S2, has been given elements in blocks of S1. *)
C17_Witness ==
  /\ deq["B"].live
  /\ deq["B"].allocator = "S1"
  /\ Elems("B") # <<>>
  /\ result.via = <<"S2">>
  /\ result.err = "none"

(* C18: a move leaves the source a live empty deque, and a push on the      *)
(* moved-from source succeeds, leaving it with exactly the pushed element   *)
(* in a block of a strategy it is bound to.                                 *)
C18_MovedFromUsable ==
  [][/\ (MoveConstruct("B", "A") \/ MoveAssign("B", "A")) =>
          /\ ~undefined'
          /\ deq'["A"].live
          /\ Elems("A")' = <<>>
     /\ \A v \in Values :
          (deq["A"].live /\ deq["A"].allocator = NoStrategy /\ PushBack("A", v)) =>
             /\ ~undefined'
             /\ result'.err = "none"
             /\ Elems("A")' = <<v>>
             /\ deq'["A"].allocator \in Strategies
             /\ find(allocEls'[deq'["A"].allocator], deq'["A"].start) # 0
    ]_vars

(* C19: at every moment each block that is handed out and not returned is   *)
(* in the list of exactly one strategy, exactly once, and no returned block  *)
(* is in any list; a successful alloc appends the fresh block it returns;    *)
(* the destruction of a strategy frees every block it still tracks, each     *)
(* handed out until then, and touches no block of another strategy.          *)
C19_TrackingExact ==
  /\ [](\A a \in Addr :
         LET entries == {p \in Strategies \X (1..(MaxAddr + 1)) :
                           /\ p[2] \in DOMAIN allocEls[p[1]]
                           /\ allocEls[p[1]][p[2]] = a}
         IN Cardinality(entries) = IF status[a] = "free" THEN 0 ELSE 1)
  /\ [][\A s \in Strategies :
          /\ (StrategyAlloc(s) /\ result'.ret # NULL) =>
               /\ status[result'.ret] = "free"
               /\ allocEls'[s] = Append(allocEls[s], result'.ret)
               /\ \A t \in Strategies \ {s} : allocEls'[t] = allocEls[t]
          /\ Release(s) =>
               /\ ~undefined'
               /\ allocEls'[s] = <<>>
               /\ \A t \in Strategies \ {s} : allocEls'[t] = allocEls[t]
               /\ \A a \in Addr :
                    IF find(allocEls[s], a) # 0
                    THEN status[a] # "free" /\ status'[a] = "free"
                    ELSE status'[a] = status[a]
      ]_vars

(* S1 has been destroyed with blocks outstanding, S2 still tracks two. *)
C19_Witness ==
  /\ held = {"S2"}
  /\ allocEls["S1"] = <<>>
  /\ Len(allocEls["S2"]) = 2
  /\ Cardinality(FreeBlocks) = MaxAddr - 2
  /\ result.deallocs = <<>>

(* C20: while the deque is the only user of its strategy, the strategy has  *)
(* as many blocks outstanding as the deque has elements and they are the    *)
(* deque's nodes; a push adds one block and returns none, a successful pop   *)
(* returns one block, and after the destructor no strategy has a block       *)
(* outstanding although the client still holds the strategies.               *)
C20_NodeAccounting ==
  /\ [](/\ ~undefined
         /\ \A s \in Strategies :
              IF deq["A"].live /\ deq["A"].allocator = s
              THEN /\ Len(allocEls[s]) = Len(Elems("A"))
                   /\ Range(allocEls[s]) = Range(Nodes("A"))
              ELSE allocEls[s] = <<>>)
  /\ [][LET s == deq["A"].allocator
            Push == \E v \in Values : PushBack("A", v) \/ PushFront("A", v)
            Pop == deq["A"].start # NULL /\ (PopBack("A") \/ PopFront("A"))
        IN /\ Push => /\ Len(allocEls'[s]) = Len(allocEls[s]) + 1
                       /\ result'.deallocs = <<>>
           /\ Pop => /\ Len(allocEls'[s]) = Len(allocEls[s]) - 1
                      /\ Len(result'.deallocs) = 1
                      /\ result'.via = <<s>>
           /\ Destroy("A") => /\ held' = Strategies
                               /\ result'.deallocs = Nodes("A")
                               /\ \A t \in Strategies : allocEls'[t] = <<>>
                               /\ FreeBlocks' = Addr
      ]_vars

(* A deque of two elements has been destroyed. *)
C20_Witness ==
  /\ ~deq["A"].live
  /\ Len(result.deallocs) = 2
  /\ \A s \in Strategies : allocEls[s] = <<>>
  /\ held = Strategies

(* C21: every node on the walk from the head of a live deque is a block    *)
(* that is handed out and not freed, and it is in the list of the strategy  *)
(* the deque's allocator is bound to.                                       *)
C21_NodesOutstandingInOwnStrategy ==
  \A d \in Deques :
    deq[d].live =>
      /\ deq[d].start \in Addr \cup {NULL}
      /\ \A n \in Range(Nodes(d)) :
           /\ status[n] # "free"
           /\ deq[d].allocator \in Strategies
           /\ find(allocEls[deq[d].allocator], n) # 0

(* C22: copy assignment of a deque from itself, and Copy with the deque as  *)
(* its own source, read no freed node and leave the deque with the elements  *)
(* it had, in the same order.                                                *)
C22_SelfCopyKeepsElements ==
  [][(CopyAssign("A", "A") \/ \E s \in Strategies : Copy("A", "A", s)) =>
       /\ ~undefined'
       /\ Elems("A")' = Elems("A")
    ]_vars

(* C23: operator<<(stream, deque) writes to the stream it is given each     *)
(* element of the deque, front to back, each followed by the delimiter,     *)
(* writes to no other stream, returns the stream it was given and leaves     *)
(* the deque and the heap as they were; for an empty deque it writes nothing. *)
C23_WritesToGivenStream ==
  [][\A stream \in Streams :
       operator_shl(stream, "A") =>
         LET e == Elems("A")
         IN /\ ~undefined'
            /\ out'[stream] = [i \in 1..(2 * Len(e)) |->
                                 IF i % 2 = 1 THEN e[(i + 1) \div 2] ELSE ", "]
            /\ \A other \in Streams \ {stream} : out'[other] = <<>>
            /\ out'.returned = stream
            /\ UNCHANGED <<heap, status, allocEls, held, deq, iter>>
    ]_vars

====
